---- MODULE Spec2Model ----
(***************************************************************************)
(* Attendance-Tracker: the name-reconciliation core of src/app.py.         *)
(*                                                                         *)
(*   normalize_name   raw name -> canonical comparison form                *)
(*   pairwise_match   greedy one-to-one matching of the present list       *)
(*                    against the roster: exact, token overlap, character  *)
(*                    similarity, close-match fallback                     *)
(*                                                                         *)
(* A string is a sequence of characters.  A character is a one-letter      *)
(* string naming itself, except the named characters                       *)
(*   "TAB"     U+0009, whitespace                                          *)
(*   "Eacute"  U+00C9, NFKD-decomposes to "E" + a combining mark           *)
(*   "eszett"  U+00DF, no ASCII decomposition                              *)
(* The characters of the model are the letters a b c d e f i m o p r s x    *)
(* A B D E M, the digit 1, "_", ".", " " and the three named ones.          *)
(* Scores are exact fractions <<num, den>>; thresholds are in hundredths.  *)
(***************************************************************************)
EXTENDS Integers, Sequences, FiniteSets

\* ------------------------------------------------------------------------
\* Characters
\* ------------------------------------------------------------------------

\* str.isspace() / regex \s over the characters of the model
IsSpace(c) == c \in {" ", "TAB"}

\* regex \w over the characters left after the ASCII fold: letters, digits, "_"
IsWord(c) == c \in {"a", "b", "c", "d", "e", "f", "i", "m", "o", "p", "r", "s",
                    "x", "A", "B", "D", "E", "M", "1", "_"}

\* unicodedata.normalize("NFKD", c).encode("ascii", "ignore").decode("ascii")
AsciiFold(c) ==
    CASE c = "Eacute" -> <<"E">>
      [] c = "eszett" -> <<>>
      [] OTHER        -> <<c>>

\* str.lower() on one ASCII character
LowerChar(c) ==
    CASE c = "A" -> "a"
      [] c = "B" -> "b"
      [] c = "D" -> "d"
      [] c = "E" -> "e"
      [] c = "M" -> "m"
      [] OTHER   -> c

\* code point order of the characters a normalized name can hold
\* (space < digits < "_" < lower-case letters), for Python's string comparison
CharOrd(c) ==
    CASE c = "TAB" -> 0
      [] c = " " -> 1
      [] c = "1" -> 2
      [] c = "_" -> 3
      [] c = "a" -> 4
      [] c = "b" -> 5
      [] c = "c" -> 6
      [] c = "d" -> 7
      [] c = "e" -> 8
      [] c = "f" -> 9
      [] c = "i" -> 10
      [] c = "m" -> 11
      [] c = "o" -> 12
      [] c = "p" -> 13
      [] c = "r" -> 14
      [] c = "s" -> 15
      [] c = "x" -> 16

\* ------------------------------------------------------------------------
\* String helpers
\* ------------------------------------------------------------------------

RECURSIVE LStrip(_)
\* the string without its leading whitespace
LStrip(s) == IF s # <<>> /\ IsSpace(Head(s)) THEN LStrip(Tail(s)) ELSE s

RECURSIVE RStrip(_)
\* the string without its trailing whitespace
RStrip(s) ==
    IF s # <<>> /\ IsSpace(s[Len(s)]) THEN RStrip(SubSeq(s, 1, Len(s) - 1)) ELSE s

\* str.strip()
Strip(s) == RStrip(LStrip(s))

\* every character folded
Folded(s) == [k \in 1..Len(s) |-> AsciiFold(s[k])]

\* encode("ascii", "ignore") left something of the character
Survives(f) == f # <<>>

\* the character each member of fs holds (a character folds to one character
\* or to none)
Firsts(fs) == [k \in 1..Len(fs) |-> fs[k][1]]

\* NFKD + ASCII-only, character by character
FoldAll(s) == Firsts(SelectSeq(Folded(s), Survives))

\* str.lower()
Lower(s) == [i \in 1..Len(s) |-> LowerChar(s[i])]

\* re.sub(r"[^\w\s]", " ", s)
PunctToSpace(s) ==
    [i \in 1..Len(s) |-> IF IsWord(s[i]) \/ IsSpace(s[i]) THEN s[i] ELSE " "]

\* the least member of a set of numbers
Least(S) == CHOOSE x \in S : \A y \in S : x <= y

\* the tokens of a string from the tokens l of its first h characters and the
\* tokens r of the rest: a token that runs across the cut is put together
SplitGlue(s, h, l, r) ==
    IF ~IsSpace(s[h]) /\ ~IsSpace(s[h + 1])
    THEN SubSeq(l, 1, Len(l) - 1) \o <<l[Len(l)] \o r[1]>> \o Tail(r)
    ELSE l \o r

RECURSIVE Split(_)
\* str.split(): the whitespace-delimited tokens of s, one half of the string
\* after the other
Split(s) ==
    IF s = <<>> THEN <<>>
    ELSE IF Len(s) = 1 THEN (IF IsSpace(s[1]) THEN <<>> ELSE <<s>>)
         ELSE SplitGlue(s, Len(s) \div 2,
                        Split(SubSeq(s, 1, Len(s) \div 2)),
                        Split(SubSeq(s, Len(s) \div 2 + 1, Len(s))))

RECURSIVE Join(_)
\* " ".join(tokens), one half of the list after the other
Join(toks) ==
    IF toks = <<>> THEN <<>>
    ELSE IF Len(toks) = 1 THEN toks[1]
         ELSE Join(SubSeq(toks, 1, Len(toks) \div 2)) \o <<" ">>
                 \o Join(SubSeq(toks, Len(toks) \div 2 + 1, Len(toks)))

\* the alternatives of the salutation regex, in the order it tries them
Salutations ==
    << <<"m", "r">>, <<"m", "s">>, <<"m", "r", "s">>, <<"m", "i", "s", "s">>,
       <<"d", "r">>, <<"p", "r", "o", "f">>, <<"s", "i", "r">> >>

\* whether ^h\s+ matches s
SalutationMatches(h, s) ==
    /\ Len(s) > Len(h)
    /\ SubSeq(s, 1, Len(h)) = h
    /\ IsSpace(s[Len(h) + 1])

\* re.sub(r"^(mr|ms|mrs|miss|dr|prof|sir)\s+", "", s): the first alternative that
\* matches is removed with the whitespace after it, once
StripSalutation(s) ==
    LET hits == {k \in 1..Len(Salutations) : SalutationMatches(Salutations[k], s)}
    IN  IF hits = {} THEN s
        ELSE LET k == CHOOSE x \in hits : \A y \in hits : x <= y
             IN  LStrip(SubSeq(s, Len(Salutations[k]) + 1, Len(s)))

\* normalize_name
normalize_name(s) ==
    LET s1 == Strip(s)
    IN  IF s1 = <<>> THEN <<>>
        ELSE StripSalutation(Join(Split(PunctToSpace(Lower(FoldAll(s1))))))

\* ------------------------------------------------------------------------
\* difflib.SequenceMatcher(None, a, b): no junk, autojunk on
\* ------------------------------------------------------------------------

\* autojunk sets in from this length of b
AutojunkLen == 200

\* how often c stands in b
CountIn(b, c) == Cardinality({k \in 1..Len(b) : b[k] = c})

\* bpopular: in a b of AutojunkLen characters or more, the characters that
\* stand in it more than len(b) // 100 + 1 times; they are taken out of b2j
\* and start no block
Popular(b) ==
    IF Len(b) >= AutojunkLen
    THEN {c \in {b[k] : k \in 1..Len(b)} : CountIn(b, c) > Len(b) \div 100 + 1}
    ELSE {}

\* the lesser of two numbers, and 0 if that is negative
Room(m, n) == IF m < 0 \/ n < 0 THEN 0 ELSE IF m < n THEN m ELSE n

\* the length of the common block of a and b starting at a[i], b[j], within
\* a[..ahi] and b[..bhi] (1-based, inclusive)
CommonLen(a, b, i, j, ahi, bhi) ==
    CHOOSE n \in 0..Room(ahi - i + 1, bhi - j + 1) :
       /\ n = Room(ahi - i + 1, bhi - j + 1) \/ a[i + n] # b[j + n]
       /\ \A m \in 0..(n - 1) : a[i + m] = b[j + m]

\* the length of the common block of a and b ending before a[i], b[j], within
\* a[alo..] and b[blo..]
BackLen(a, b, i, j, alo, blo) ==
    CHOOSE n \in 0..Room(i - alo, j - blo) :
       /\ n = Room(i - alo, j - blo) \/ a[i - 1 - n] # b[j - 1 - n]
       /\ \A m \in 0..(n - 1) : a[i - 1 - m] = b[j - 1 - m]

\* the length of the common block starting at a[i], b[j] that the scan over
\* b2j builds: it ends before a popular character
CoreLen(a, b, bpopular, i, j, ahi, bhi) ==
    CHOOSE n \in 0..Room(ahi - i + 1, bhi - j + 1) :
       /\ \/ n = Room(ahi - i + 1, bhi - j + 1)
          \/ a[i + n] # b[j + n]
          \/ b[j + n] \in bpopular
       /\ \A m \in 0..(n - 1) : a[i + m] = b[j + m] /\ b[j + m] \notin bpopular

\* the length of that block at every pair of starts <<i, j>> of a[alo..ahi]
\* and b[blo..bhi]
BlockLens(a, b, bpopular, alo, ahi, blo, bhi) ==
    [ij \in (alo..ahi) \X (blo..bhi) |->
        CoreLen(a, b, bpopular, ij[1], ij[2], ahi, bhi)]

\* the greatest member of a set of numbers
Greatest(S) == CHOOSE x \in S : \A y \in S : y <= x

\* bestsize: the greatest length in len
LongestLen(len) == Greatest({len[ij] : ij \in DOMAIN len})

\* the starts of the blocks of length k
StartsOf(len, k) == {x \in DOMAIN len : len[x] = k}

\* of the starts in row i, the earliest in b
FirstOf(starts, i) == <<i, Least({x[2] : x \in {y \in starts : y[1] = i}})>>

\* the scan keeps the first block that reaches bestsize: the one starting
\* earliest in a; among those, earliest in b
BestStart(starts) == FirstOf(starts, Least({x[1] : x \in starts}))

\* <<i, j, k>>: the block of length k that starts at ij
BlockAt(ij, k) == <<ij[1], ij[2], k>>

\* <<besti, bestj, bestsize>> after the scan; <<alo, blo, 0>> when it found
\* no block
ScanBest(len, k, alo, blo) ==
    IF k = 0 THEN <<alo, blo, 0>> ELSE BlockAt(BestStart(StartsOf(len, k)), k)

\* the block m grown by back characters before it and fwd characters after
Extended(m, back, fwd) == <<m[1] - back, m[2] - back, back + m[3] + fwd>>

\* the two loops after the scan: the block is extended by the matching
\* characters on each end, popular ones too (none of them is junk)
Extend(a, b, alo, ahi, blo, bhi, m) ==
    Extended(m, BackLen(a, b, m[1], m[2], alo, blo),
                CommonLen(a, b, m[1] + m[3], m[2] + m[3], ahi, bhi))

\* find_longest_match(alo, ahi, blo, bhi) on non-empty ranges: <<i, j, k>> with
\* a[i..i+k-1] = b[j..j+k-1]; k = 0 when the scan found no block and
\* a[alo] # b[blo]
find_longest_match(a, b, bpopular, alo, ahi, blo, bhi) ==
    Extend(a, b, alo, ahi, blo, bhi,
           ScanBest(BlockLens(a, b, bpopular, alo, ahi, blo, bhi),
                    LongestLen(BlockLens(a, b, bpopular, alo, ahi, blo, bhi)),
                    alo, blo))

RECURSIVE MatchedChars(_, _, _, _, _, _, _)
RECURSIVE MatchedAround(_, _, _, _, _, _, _, _)
\* get_matching_blocks, summed: the characters matched in a[alo..ahi], b[blo..bhi]
MatchedChars(a, b, bpopular, alo, ahi, blo, bhi) ==
    IF alo > ahi \/ blo > bhi THEN 0
    ELSE MatchedAround(a, b, bpopular, alo, ahi, blo, bhi,
                       find_longest_match(a, b, bpopular, alo, ahi, blo, bhi))

\* the longest block m, and the matching of what lies left and right of it
MatchedAround(a, b, bpopular, alo, ahi, blo, bhi, m) ==
    IF m[3] = 0 THEN 0
    ELSE m[3] + MatchedChars(a, b, bpopular, alo, m[1] - 1, blo, m[2] - 1)
              + MatchedChars(a, b, bpopular, m[1] + m[3], ahi, m[2] + m[3], bhi)

\* SequenceMatcher(None, a, b).ratio() = 2.0 * matches / (len(a) + len(b)),
\* 1.0 for two empty strings; as the fraction <<num, den>>
ratio(a, b) ==
    IF Len(a) + Len(b) = 0 THEN <<1, 1>>
    ELSE <<2 * MatchedChars(a, b, Popular(b), 1, Len(a), 1, Len(b)), Len(a) + Len(b)>>

\* comparisons of fractions with positive denominators
FracGT(x, y) == x[1] * y[2] > y[1] * x[2]
FracEQ(x, y) == x[1] * y[2] = y[1] * x[2]
\* fraction >= a threshold given in hundredths
FracGE100(x, c) == 100 * x[1] >= c * x[2]

\* ------------------------------------------------------------------------
\* The stages of pairwise_match
\* ------------------------------------------------------------------------

\* Python's None for "no index"; row indices are 0-based as in the code
None == -1

\* the normalized name of roster row t_idx: total_norm_list[t_idx]
NormOf(tn, t_idx) == tn[t_idx + 1]

\* set(n.split())
TokenSet(n) == LET toks == Split(n) IN {toks[i] : i \in 1..Len(toks)}

RECURSIVE Ascending(_)
\* the members of a set of row indices as a list, lowest first
Ascending(S) ==
    IF S = {} THEN <<>>
    ELSE LET m == CHOOSE x \in S : \A y \in S : x <= y
         IN  <<m>> \o Ascending(S \ {m})

\* list(unmatched_total_indices).  The pool is a Python set of the row indices
\* 0..n-1 from which members are only ever removed; CPython keeps the small
\* integer i in slot hash(i) = i of the table, so the set is traversed in
\* ascending order.
PoolList(pool) == Ascending(pool)

\* norm_to_indices[nm]: the rows whose normalized name is nm, in row order
norm_to_indices(tn, nm) == Ascending({i \in 0..(Len(tn) - 1) : NormOf(tn, i) = nm})

RECURSIVE allocate_from_list(_, _)
\* the first row of lst still in the pool, or None
allocate_from_list(lst, pool) ==
    IF lst = <<>> THEN None
    ELSE IF Head(lst) \in pool THEN Head(lst)
         ELSE allocate_from_list(Tail(lst), pool)

\* stage 1: the row an exact normalized match allocates, or None
\* ("if p_norm in norm_to_indices" holds when the list is not empty)
ExactStage(p_norm, tn, pool) ==
    allocate_from_list(norm_to_indices(tn, p_norm), pool)

\* max(coverage, jaccard) of the present tokens against a row's tokens
TokenScore(p_tokens, t_tokens) ==
    LET inter    == Cardinality(p_tokens \cap t_tokens)
        pn       == Cardinality(p_tokens)
        coverage == <<inter, IF pn > 1 THEN pn ELSE 1>>
        jaccard  == <<inter, Cardinality(p_tokens \cup t_tokens)>>
    IN  IF FracGT(jaccard, coverage) THEN jaccard ELSE coverage

\* mutant: a later row with an equal score replaces the best so far
TokenBetter_Last(score, best_score) == ~FracGT(best_score, score)

\* "if score > best_score" of the token scan
TokenBetter(score, best_score) == FracGT(score, best_score)

\* one round of the token scan: row t_idx with tokens t_tokens against the
\* best = <<best_idx, best_score>> so far
TokenStep(best, t_idx, p_tokens, t_tokens, score) ==
    IF t_tokens = {} \/ p_tokens = {} THEN best
    ELSE IF TokenBetter(score, best[2]) THEN <<t_idx, score>> ELSE best

RECURSIVE TokenScan(_, _, _, _)
\* the scan of stage 2 over the rows of lst, in order
TokenScan(p_tokens, tn, lst, best) ==
    IF lst = <<>> THEN best
    ELSE TokenScan(p_tokens, tn, Tail(lst),
                   TokenStep(best, Head(lst), p_tokens, TokenSet(NormOf(tn, Head(lst))),
                             TokenScore(p_tokens, TokenSet(NormOf(tn, Head(lst))))))

\* stage 2 up to its threshold test: <<best_idx, best_score>>
TokenBest(p_norm, tn, pool) ==
    TokenScan(TokenSet(p_norm), tn, PoolList(pool), <<None, <<0, 1>>>>)

\* mutant: the threshold test turned around, best_score <= cutoff
TokenAccepts_Flipped(best, tc) == best[1] # None /\ 100 * best[2][1] <= tc * best[2][2]

\* "best_idx is not None and best_score >= token_jaccard_cutoff"
TokenAccepts(best, tc) == best[1] # None /\ FracGE100(best[2], tc)

\* mutant: a later row with an equal ratio replaces the best so far
FuzzyBetter_Last(r, best_ratio) == ~FracGT(best_ratio, r)

\* "if ratio > best_ratio" of the fuzzy scan
FuzzyBetter(r, best_ratio) == FracGT(r, best_ratio)

\* one round of the fuzzy scan: row t_idx with normalized name t_norm and
\* ratio r against the best = <<best_idx, best_ratio>> so far
FuzzyStep(best, t_idx, t_norm, r) ==
    IF t_norm = <<>> THEN best
    ELSE IF FuzzyBetter(r, best[2]) THEN <<t_idx, r>> ELSE best

RECURSIVE FuzzyScan(_, _, _, _)
\* the scan of stage 3 over the rows of lst, in order
FuzzyScan(p_norm, tn, lst, best) ==
    IF lst = <<>> THEN best
    ELSE FuzzyScan(p_norm, tn, Tail(lst),
                   FuzzyStep(best, Head(lst), NormOf(tn, Head(lst)),
                             ratio(p_norm, NormOf(tn, Head(lst)))))

\* stage 3 up to its threshold test: <<best_idx, best_ratio>>
FuzzyBest(p_norm, tn, pool) ==
    FuzzyScan(p_norm, tn, PoolList(pool), <<None, <<0, 1>>>>)

\* "best_ratio >= fuzzy_cutoff and best_idx is not None"
FuzzyAccepts(best, fc) == FracGE100(best[2], fc) /\ best[1] # None

\* a < b for strings that agree on their first n characters and not on the
\* next: the shorter one is less, otherwise the character after decides
LessAfter(a, b, n) ==
    IF n >= Len(b) THEN FALSE
    ELSE IF n >= Len(a) THEN TRUE
    ELSE CharOrd(a[n + 1]) < CharOrd(b[n + 1])

\* Python's a < b on strings
StrLT(a, b) == LessAfter(a, b, CommonLen(a, b, 1, 1, Len(a), Len(b)))

\* the cutoff of the close-match stage, in hundredths
CloseCutoff == 60

\* heapq.nlargest(1, result): of the possibilities whose ratio key[i] reaches
\* the cutoff, the one with the largest (ratio, string); <<x>>, or <<>>
LargestClose(possibilities, key) ==
    LET good == {i \in DOMAIN key : FracGE100(key[i], CloseCutoff)}
    IN  IF good = {} THEN <<>>
        ELSE <<possibilities[
                 CHOOSE i \in good :
                    \A j \in good :
                       \/ FracGT(key[i], key[j])
                       \/ /\ FracEQ(key[i], key[j])
                          /\ ~StrLT(possibilities[i], possibilities[j])]>>

\* get_close_matches(word, possibilities, n=1, cutoff=0.6): the ratio of each
\* possibility x is SequenceMatcher(a=x, b=word).ratio() (its two quick ratios
\* are upper bounds of ratio() and exclude nothing more)
get_close_matches(word, possibilities) ==
    LargestClose(possibilities,
                 [i \in 1..Len(possibilities) |-> ratio(possibilities[i], word)])

RECURSIVE FirstWithNorm(_, _, _)
\* the first row of lst whose normalized name is nm, or None
FirstWithNorm(tn, lst, nm) ==
    IF lst = <<>> THEN None
    ELSE IF NormOf(tn, Head(lst)) = nm THEN Head(lst)
         ELSE FirstWithNorm(tn, Tail(lst), nm)

\* lines 150-156: the row of the pool that close[0] names
CloseCandidate(tn, lst, close) ==
    IF close = <<>> THEN None ELSE FirstWithNorm(tn, lst, close[1])

\* stage 4 over the pool traversed as lst
CloseFrom(p_norm, tn, lst) ==
    CloseCandidate(tn, lst,
                   get_close_matches(p_norm, [k \in 1..Len(lst) |-> NormOf(tn, lst[k])]))

\* stage 4: the row the close-match fallback allocates, or None
CloseStage(p_norm, tn, pool) == CloseFrom(p_norm, tn, PoolList(pool))

\* the significand of a float: 53 binary digits
MantissaBits == 53

RECURSIVE FloatRounding(_, _, _, _)
\* the sign of float(n / d) - n / d for the true division of line 113, 115
\* and of ratio(): the quotient is developed in binary, r the remainder
\* after the digits produced so far, bits the number of significant digits
\* produced (0 before the leading one), last the digit produced last; after
\* MantissaBits digits what remains decides the rounding (to nearest, a half
\* to the even significand); 0 when the float holds the quotient exactly
FloatRounding(r, d, bits, last) ==
    IF r = 0 THEN 0
    ELSE IF bits = MantissaBits
         THEN IF 2 * r > d THEN 1
              ELSE IF 2 * r < d THEN -1
              ELSE IF last = 1 THEN 1 ELSE -1
         ELSE IF 2 * r >= d
              THEN FloatRounding(2 * r - d, d, bits + 1, 1)
              ELSE FloatRounding(2 * r, d, IF bits > 0 THEN bits + 1 ELSE 0, 0)

\* a half-hundredth is formatted from the float's value: upwards when the
\* float lies above the fraction, downwards when below, and to the even
\* neighbour when the float holds the fraction exactly (eighths)
HalfHundredth(q, rounding) ==
    IF rounding > 0 THEN q + 1
    ELSE IF rounding < 0 THEN q
    ELSE IF q % 2 = 0 THEN q ELSE q + 1

\* format(x, ".2f") of the float nearest the fraction x, in hundredths: the
\* float's value rounded to the nearest hundredth
TwoDecimals(x) ==
    LET q == (100 * x[1]) \div x[2]
        r == (100 * x[1]) % x[2]
    IN  IF 2 * r > x[2] THEN q + 1
        ELSE IF 2 * r < x[2] THEN q
        ELSE HalfHundredth(q, FloatRounding(x[1] % x[2], x[2], 0, 0))

\* mutant: the exact stage left out of the cascade
Cascade_NoExact(ex, tb, fb, cl, fc, tc) ==
    IF TokenAccepts(tb, tc) THEN <<tb[1], <<"token-match", TwoDecimals(tb[2])>>>>
    ELSE IF FuzzyAccepts(fb, fc) THEN <<fb[1], <<"fuzzy", TwoDecimals(fb[2])>>>>
    ELSE IF cl # None THEN <<cl, <<"close-match">>>>
    ELSE <<None, <<"none">>>>

\* the order of the stages: ex, tb, fb, cl are what stages 1 to 4 find in the
\* pool; <<chosen row or None, method>> of the first stage that allocates
Cascade(ex, tb, fb, cl, fc, tc) ==
    IF ex # None THEN <<ex, <<"exact">>>>
    ELSE IF TokenAccepts(tb, tc) THEN <<tb[1], <<"token-match", TwoDecimals(tb[2])>>>>
    ELSE IF FuzzyAccepts(fb, fc) THEN <<fb[1], <<"fuzzy", TwoDecimals(fb[2])>>>>
    ELSE IF cl # None THEN <<cl, <<"close-match">>>>
    ELSE <<None, <<"none">>>>

\* lines 98-163 for one present record with a non-empty normalized name
MatchRecord(p_norm, tn, pool, fc, tc) ==
    Cascade(ExactStage(p_norm, tn, pool), TokenBest(p_norm, tn, pool),
            FuzzyBest(p_norm, tn, pool), CloseStage(p_norm, tn, pool), fc, tc)

\* mutant: the blank test left out
IsBlank_Never(n) == FALSE

\* "if not p_norm"
IsBlank(n) == n = <<>>

\* mutant: the allocated row stays in the pool
RemoveFromPool_Keep(pool, t_idx) == pool

\* unmatched_total_indices.remove(t_idx)
RemoveFromPool(pool, t_idx) == pool \ {t_idx}

\* mutant: the unmatched present name is not recorded
AppendNotFound_Drop(nf, orig) == nf

\* not_found_present.append(p_orig)
AppendNotFound(nf, orig) == Append(nf, orig)

\* column.astype(str).apply(normalize_name)
NormColumn(col) == [i \in 1..Len(col) |-> normalize_name(col[i])]

\* the rows of the pool as the absentees: total.loc[sorted(pool)], name column
AbsenteeRows(tot, pool) ==
    [k \in 1..Cardinality(pool) |-> tot[Ascending(pool)[k] + 1]]

\* the dictionary pairwise_match returns
Report(tot, pres, pool, pairs, nf) ==
    [ total_count       |-> Len(tot),
      present_records   |-> Len(pres),
      matched_count     |-> Len(pairs),
      absentees_count   |-> Len(AbsenteeRows(tot, pool)),
      absentees_df      |-> AbsenteeRows(tot, pool),
      not_found_present |-> nf,
      matched_pairs     |-> pairs ]

\* the loop's state after the cascade answered o for present row k
AfterOutcome(st, k, orig, o) ==
    IF o[1] = None
    THEN [st EXCEPT !.nf = AppendNotFound(st.nf, orig)]
    ELSE [st EXCEPT !.pool = RemoveFromPool(st.pool, o[1]),
                    !.pairs = Append(st.pairs, <<k, o[1], o[2]>>)]

\* one round of the loop, lines 91-163, on st = [pool, pairs, nf]
LoopBody(st, k, orig, norm, tn, fc, tc) ==
    IF IsBlank(norm)
    THEN [st EXCEPT !.nf = AppendNotFound(st.nf, orig)]
    ELSE AfterOutcome(st, k, orig, MatchRecord(norm, tn, st.pool, fc, tc))

RECURSIVE LoopFrom(_, _, _, _, _, _, _)
\* the rounds for present rows k, k+1, ...
LoopFrom(st, k, pres, pn, tn, fc, tc) ==
    IF k >= Len(pres) THEN st
    ELSE LoopFrom(LoopBody(st, k, pres[k + 1], pn[k + 1], tn, fc, tc),
                  k + 1, pres, pn, tn, fc, tc)

\* the loop's state when pairwise_match(tot, pres, fc, tc) leaves the loop
FinalState(tot, pres, fc, tc) ==
    LoopFrom([pool |-> 0..(Len(tot) - 1), pairs |-> <<>>, nf |-> <<>>],
             0, pres, NormColumn(pres), NormColumn(tot), fc, tc)

\* the report of that state
ReportOf(tot, pres, st) == Report(tot, pres, st.pool, st.pairs, st.nf)

\* pairwise_match as a function of its arguments
pairwise_match(tot, pres, fc, tc) == ReportOf(tot, pres, FinalState(tot, pres, fc, tc))

\* ------------------------------------------------------------------------
\* State
\* ------------------------------------------------------------------------

VARIABLES
    total,                    \* the roster's name column, raw
    present,                  \* the present list's name column, raw
    fuzzy_cutoff,             \* in hundredths
    token_jaccard_cutoff,     \* in hundredths
    total_norm_list,          \* total["__norm"]
    present_norm,             \* present["__norm"]
    unmatched_total_indices,  \* the pool: roster rows not yet allocated
    matched_pairs,            \* <<present row, roster row, method>>, in order
    not_found_present,        \* raw present names left unmatched, in order
    p_idx,                    \* the present row the loop is at
    report,                   \* what pairwise_match returns
    pc,                       \* "start", "loop", "done"; "norm" for normalize_name alone
    norm_in,                  \* normalize_name alone: the input string
    norm_out                  \* normalize_name alone: the outputs so far, in order

vars == <<total, present, fuzzy_cutoff, token_jaccard_cutoff, total_norm_list,
          present_norm, unmatched_total_indices, matched_pairs, not_found_present,
          p_idx, report, pc, norm_in, norm_out>>

\* ------------------------------------------------------------------------
\* Inputs
\* ------------------------------------------------------------------------

\* most rows of a roster
MaxTotal == 2
\* most rows of a present list
MaxPresent == 2
\* most rows of a present list when two runs are compared
MaxPresentPair == 3
\* most pieces of a raw string given to normalize_name alone
MaxPieces == 5

\* the sequences over S of at most n members
SeqsUpTo(S, n) == UNION {[1..k -> S] : k \in 0..n}

\* raw roster names: "A b", "ab", "Dr. abd", "."
RosterNames ==
    { <<"A", " ", "b">>, <<"a", "b">>,
      <<"D", "r", ".", " ", "a", "b", "d">>, <<".">> }

\* raw present names: "a", "A  B", "TAB", "x"
PresentNames ==
    { <<"a">>, <<"A", " ", " ", "B">>, <<"TAB">>, <<"x">> }

\* s * n
Repeat(s, n) == [k \in 1..(n * Len(s)) |-> s[((k - 1) % Len(s)) + 1]]

\* a name of AutojunkLen characters, all of them popular: "ab " * 66 + "ab"
LongName == Repeat(<<"a", "b", " ">>, 66) \o <<"a", "b">>

\* forty characters
LongBlock ==
    <<"a", "b", "c", "d", "e", "f", "i", "m", "o", "p",
      "r", "s", "x", "a", "c", "e", "i", "o", "r", "x",
      "b", "d", "f", "m", "p", "s", "a", "d", "i", "p",
      "x", "c", "f", "o", "s", "b", "e", "m", "r", "x">>

\* a one-word name of AutojunkLen characters, all of them popular, and a
\* hundred characters from its middle
LongWord == Repeat(LongBlock, 5)
LongPart == SubSeq(LongWord, 51, 150)

\* <<roster, present list>> of the runs on a name of AutojunkLen characters:
\* LongName stands in the roster against "xab dab", alone and before "ab", and
\* in the present list against "a b"; LongWord stands in the roster against
\* LongPart
LongRuns ==
    { << <<LongName>>, << <<"x", "a", "b", " ", "d", "a", "b">> >> >>,
      << <<LongName, <<"a", "b">> >>, << <<"x", "a", "b", " ", "d", "a", "b">> >> >>,
      << << <<"a", " ", "b">> >>, <<LongName>> >>,
      << <<LongWord>>, <<LongPart>> >> }

\* <<fuzzy_cutoff, token_jaccard_cutoff>>: the defaults of the code, both zero,
\* and both outside [0, 1]
Configs == { <<72, 50>>, <<0, 0>>, <<150, -10>> }

\* what the variables of normalize_name alone hold during a matching run
NormIdle == norm_in = <<>> /\ norm_out = <<>>

\* a roster of three rows with the same normalized name "a b", against the
\* present names "a" and "ab": the token stage takes one of the three rows
\* for "a", the fuzzy stage one of the two left for "ab"
TieRun ==
    << << <<"A", " ", "b">>, <<"A", " ", "b">>, <<"A", " ", "b">> >>,
       << <<"a">>, <<"a", "b">> >> >>

Init ==
    /\ \E run \in (SeqsUpTo(RosterNames, MaxTotal) \X SeqsUpTo(PresentNames, MaxPresent))
                    \cup LongRuns \cup {TieRun} :
          total = run[1] /\ present = run[2]
    /\ \E c \in Configs : fuzzy_cutoff = c[1] /\ token_jaccard_cutoff = c[2]
    /\ total_norm_list = <<>>
    /\ present_norm = <<>>
    /\ unmatched_total_indices = {}
    /\ matched_pairs = <<>>
    /\ not_found_present = <<>>
    /\ p_idx = 0
    /\ report = <<>>
    /\ pc = "start"
    /\ NormIdle

\* ------------------------------------------------------------------------
\* pairwise_match
\* ------------------------------------------------------------------------

\* the inputs of a run, which it never writes
Inputs == <<total, present, fuzzy_cutoff, token_jaccard_cutoff, norm_in, norm_out>>

\* lines 65-81: the normalized columns and the pool of all roster rows
Prepare ==
    /\ pc = "start"
    /\ total_norm_list' = NormColumn(total)
    /\ present_norm' = NormColumn(present)
    /\ unmatched_total_indices' = 0..(Len(total) - 1)
    /\ matched_pairs' = <<>>
    /\ not_found_present' = <<>>
    /\ p_idx' = 0
    /\ pc' = "loop"
    /\ UNCHANGED <<report, Inputs>>

\* the loop has a present row to process
AtRecord == pc = "loop" /\ p_idx < Len(present)

\* present.at[p_idx, name_col_present] and present.at[p_idx, "__norm"]
p_orig == present[p_idx + 1]
p_norm == present_norm[p_idx + 1]

\* the cascade's answer for the present row the loop is at
Outcome ==
    MatchRecord(p_norm, total_norm_list, unmatched_total_indices,
                fuzzy_cutoff, token_jaccard_cutoff)

\* lines 94-96: a present row with an empty normalized name
EmptyRecord ==
    /\ AtRecord
    /\ IsBlank(p_norm)
    /\ not_found_present' = AppendNotFound(not_found_present, p_orig)
    /\ p_idx' = p_idx + 1
    /\ UNCHANGED <<total_norm_list, present_norm, unmatched_total_indices,
                   matched_pairs, report, pc, Inputs>>

\* a stage allocated row o[1] by method o[2]: the row leaves the pool and the
\* pair is recorded
Allocate(o) ==
    /\ unmatched_total_indices' = RemoveFromPool(unmatched_total_indices, o[1])
    /\ matched_pairs' = Append(matched_pairs, <<p_idx, o[1], o[2]>>)
    /\ p_idx' = p_idx + 1
    /\ UNCHANGED <<total_norm_list, present_norm, not_found_present, report, pc, Inputs>>

\* lines 98-103: the exact stage allocates
ExactMatch ==
    /\ AtRecord
    /\ ~IsBlank(p_norm)
    /\ \E o \in {Outcome} : o[1] # None /\ o[2][1] = "exact" /\ Allocate(o)

\* lines 105-129: the token stage allocates
TokenMatch ==
    /\ AtRecord
    /\ ~IsBlank(p_norm)
    /\ \E o \in {Outcome} : o[1] # None /\ o[2][1] = "token-match" /\ Allocate(o)

\* lines 131-146: the character-similarity stage allocates
FuzzyMatch ==
    /\ AtRecord
    /\ ~IsBlank(p_norm)
    /\ \E o \in {Outcome} : o[1] # None /\ o[2][1] = "fuzzy" /\ Allocate(o)

\* lines 148-160: the close-match fallback allocates
CloseMatch ==
    /\ AtRecord
    /\ ~IsBlank(p_norm)
    /\ \E o \in {Outcome} : o[1] # None /\ o[2][1] = "close-match" /\ Allocate(o)

\* lines 162-163: no stage allocated
NoMatch ==
    /\ AtRecord
    /\ ~IsBlank(p_norm)
    /\ Outcome[1] = None
    /\ not_found_present' = AppendNotFound(not_found_present, p_orig)
    /\ p_idx' = p_idx + 1
    /\ UNCHANGED <<total_norm_list, present_norm, unmatched_total_indices,
                   matched_pairs, report, pc, Inputs>>

\* lines 165-179: the rows left in the pool are the absentees, in row order
Return ==
    /\ pc = "loop"
    /\ p_idx = Len(present)
    /\ report' = Report(total, present, unmatched_total_indices, matched_pairs,
                        not_found_present)
    /\ pc' = "done"
    /\ UNCHANGED <<total_norm_list, present_norm, unmatched_total_indices,
                   matched_pairs, not_found_present, p_idx, Inputs>>

Next ==
    \/ Prepare
    \/ EmptyRecord
    \/ ExactMatch
    \/ TokenMatch
    \/ FuzzyMatch
    \/ CloseMatch
    \/ NoMatch
    \/ Return

Spec == Init /\ [][Next]_vars

\* ------------------------------------------------------------------------
\* Runs compared under different cutoffs
\* ------------------------------------------------------------------------

\* raw roster names: "A b", "ab"
CutRosterNames == { <<"A", " ", "b">>, <<"a", "b">> }

\* raw present names: "a c d", "a", "ab x", "TAB", "ab"
CutPresentNames ==
    { <<"a", " ", "c", " ", "d">>, <<"a">>, <<"a", "b", " ", "x">>, <<"TAB">>,
      <<"a", "b">> }

\* <<fuzzy_cutoff, token_jaccard_cutoff>>
CutConfigs == { <<72, 50>>, <<0, 0>> }

\* the cutoffs a run is compared under, in hundredths
CutoffValues == {0, 33, 50, 72, 100}

InitCutoffs ==
    /\ total \in SeqsUpTo(CutRosterNames, MaxTotal)
    /\ present \in SeqsUpTo(CutPresentNames, MaxPresentPair)
    /\ \E c \in CutConfigs : fuzzy_cutoff = c[1] /\ token_jaccard_cutoff = c[2]
    /\ total_norm_list = <<>>
    /\ present_norm = <<>>
    /\ unmatched_total_indices = {}
    /\ matched_pairs = <<>>
    /\ not_found_present = <<>>
    /\ p_idx = 0
    /\ report = <<>>
    /\ pc = "start"
    /\ NormIdle

SpecCutoffs == InitCutoffs /\ [][Next]_vars

\* ------------------------------------------------------------------------
\* normalize_name alone, applied to a raw string and then to its own output
\* ------------------------------------------------------------------------

\* what raw strings are put together from: "Mr", "dr", "Dr.", " ", "a",
\* E-acute, ".", TAB
Pieces ==
    { <<"M", "r">>, <<"d", "r">>, <<"D", "r", ".">>, <<" ">>, <<"a">>,
      <<"Eacute">>, <<".">>, <<"TAB">> }

RECURSIVE Concat(_)
\* the pieces one after the other
Concat(ps) == IF ps = <<>> THEN <<>> ELSE Head(ps) \o Concat(Tail(ps))

RawStrings == {Concat(ps) : ps \in SeqsUpTo(Pieces, MaxPieces)}

InitNorm ==
    /\ norm_in \in RawStrings
    /\ norm_out = <<>>
    /\ pc = "norm"
    /\ total = <<>>
    /\ present = <<>>
    /\ fuzzy_cutoff = 72
    /\ token_jaccard_cutoff = 50
    /\ total_norm_list = <<>>
    /\ present_norm = <<>>
    /\ unmatched_total_indices = {}
    /\ matched_pairs = <<>>
    /\ not_found_present = <<>>
    /\ p_idx = 0
    /\ report = <<>>

\* what a call of normalize_name leaves alone
NormFrame ==
    UNCHANGED <<total, present, fuzzy_cutoff, token_jaccard_cutoff, total_norm_list,
                present_norm, unmatched_total_indices, matched_pairs,
                not_found_present, p_idx, report, pc, norm_in>>

\* normalize_name(norm_in)
NormalizeOnce ==
    /\ pc = "norm"
    /\ norm_out = <<>>
    /\ norm_out' = <<normalize_name(norm_in)>>
    /\ NormFrame

\* normalize_name on the first call's output
NormalizeAgain ==
    /\ pc = "norm"
    /\ Len(norm_out) = 1
    /\ norm_out' = Append(norm_out, normalize_name(norm_out[1]))
    /\ NormFrame

NextNorm == NormalizeOnce \/ NormalizeAgain

SpecNorm == InitNorm /\ [][NextNorm]_vars

\* ------------------------------------------------------------------------
\* Properties
\* ------------------------------------------------------------------------

\* the roster rows and the present rows
Rows == 0..(Len(total) - 1)
PresentRows == 0..(Len(present) - 1)

\* the two sides of matched_pairs
MatchedTotal == {matched_pairs[i][2] : i \in 1..Len(matched_pairs)}
MatchedPresent == {matched_pairs[i][1] : i \in 1..Len(matched_pairs)}

\* the raw names of the present rows of S, in row order
OriginalsOf(S) == [k \in 1..Cardinality(S) |-> present[Ascending(S)[k] + 1]]

\* the step processes a present row with a non-empty normalized name
AtNamedRecord == AtRecord /\ p_norm # <<>>

\* the step appends a pair made by method
Allocates(method) ==
    /\ Len(matched_pairs') = Len(matched_pairs) + 1
    /\ matched_pairs'[Len(matched_pairs')][3][1] = method

\* the roster row the step allocates
NewRow == matched_pairs'[Len(matched_pairs')][2]

\* token score and character ratio of the current present row against row t
ScoreOf(t) == TokenScore(TokenSet(p_norm), TokenSet(NormOf(total_norm_list, t)))
RatioOf(t) == ratio(p_norm, NormOf(total_norm_list, t))

\* the rows the token scan and the fuzzy scan look at
TokenCandidates ==
    {t \in unmatched_total_indices : TokenSet(NormOf(total_norm_list, t)) # {}}
FuzzyCandidates ==
    {t \in unmatched_total_indices : NormOf(total_norm_list, t) # <<>>}

\* the pair made for the present row processed last, and that row's
\* normalized name
LastPair == matched_pairs[Len(matched_pairs)]
JustAllocated(method) ==
    /\ pc = "loop" /\ p_idx > 0 /\ matched_pairs # <<>>
    /\ LastPair[1] = p_idx - 1
    /\ LastPair[3][1] = method
LastNorm == present_norm[p_idx]
LastScoreOf(t) == TokenScore(TokenSet(LastNorm), TokenSet(NormOf(total_norm_list, t)))
LastRatioOf(t) == ratio(LastNorm, NormOf(total_norm_list, t))

\* C1: when the run has returned, every roster row is on the roster side of
\* exactly one pair or in the pool of absentees, never both; every present row
\* is on the present side of exactly one pair or its raw name is in
\* not_found_present, in row order; and the counts of the report add up.
PartitionInvariant ==
    pc = "done" =>
        /\ MatchedTotal \cup unmatched_total_indices = Rows
        /\ MatchedTotal \cap unmatched_total_indices = {}
        /\ Cardinality(MatchedTotal) = Len(matched_pairs)
        /\ MatchedPresent \subseteq PresentRows
        /\ Cardinality(MatchedPresent) = Len(matched_pairs)
        /\ not_found_present = OriginalsOf(PresentRows \ MatchedPresent)
        /\ report.absentees_df = AbsenteeRows(total, Rows \ MatchedTotal)
        /\ report.matched_count + report.absentees_count = report.total_count
        /\ report.matched_count + Len(report.not_found_present) = report.present_records

\* C1 witness: a finished run with a match, an absentee and an unmatched name
PartitionWitness ==
    /\ pc = "done"
    /\ report.matched_count > 0
    /\ report.absentees_count > 0
    /\ Len(report.not_found_present) > 0

\* no roster row is in two pairs, and no allocated row is in the pool
NoDoubleBooking ==
    /\ Cardinality(MatchedTotal) = Len(matched_pairs)
    /\ pc \in {"loop", "done"} => MatchedTotal \cap unmatched_total_indices = {}

\* a step of the loop never puts a row back, and the row a stage allocates
\* comes from the pool and leaves it
PoolOnlyShrinks ==
    pc = "loop" =>
        /\ unmatched_total_indices' \subseteq unmatched_total_indices
        /\ Len(matched_pairs') > Len(matched_pairs) =>
              /\ NewRow \in unmatched_total_indices
              /\ NewRow \notin unmatched_total_indices'

\* C2: no roster row occurs in two entries of matched_pairs; a row removed
\* from the pool by any stage is never put back, and every allocation takes a
\* row that is still in the pool.
OneToOne == []NoDoubleBooking /\ [][PoolOnlyShrinks]_vars

\* C2 witness: two present rows with the same normalized name were both
\* allocated, to different roster rows
OneToOneWitness ==
    /\ Len(matched_pairs) = 2
    /\ present_norm[1] = present_norm[2]
    /\ matched_pairs[1][2] # matched_pairs[2][2]

\* the pool rows whose normalized name equals the current present row's
EqualRows == {t \in unmatched_total_indices : NormOf(total_norm_list, t) = p_norm}

\* C3: when a present row with a non-empty normalized name is processed and
\* the pool holds a row with the same normalized name, the step allocates by
\* method exact, to the lowest such row.
ExactPrecedence ==
    [][ (AtNamedRecord /\ EqualRows # {}) =>
           /\ Allocates("exact")
           /\ NewRow \in EqualRows
           /\ \A t \in EqualRows : NewRow <= t ]_vars

\* C3 witness: an exact allocation made while the pool held another row that
\* shares a token with the present name
ExactWitness ==
    /\ JustAllocated("exact")
    /\ \E t \in unmatched_total_indices : LastScoreOf(t)[1] > 0

\* the orders in which the rows of S can be traversed
Orders(S) ==
    {lst \in [1..Cardinality(S) -> S] :
        \A i, j \in 1..Cardinality(S) : i # j => lst[i] # lst[j]}

\* where row t stands in the traversal lst
PositionIn(lst, t) == CHOOSE k \in 1..Len(lst) : lst[k] = t

\* the row the token scan and the fuzzy scan keep for the current present
\* row when they walk the pool as lst
TokenChoiceOver(lst) ==
    TokenScan(TokenSet(p_norm), total_norm_list, lst, <<None, <<0, 1>>>>)[1]
FuzzyChoiceOver(lst) ==
    FuzzyScan(p_norm, total_norm_list, lst, <<None, <<0, 1>>>>)[1]

\* the cascade's answer for the current present row when every stage walks
\* the pool as lst
OutcomeOver(lst) ==
    Cascade(ExactStage(p_norm, total_norm_list, unmatched_total_indices),
            TokenScan(TokenSet(p_norm), total_norm_list, lst, <<None, <<0, 1>>>>),
            FuzzyScan(p_norm, total_norm_list, lst, <<None, <<0, 1>>>>),
            CloseFrom(p_norm, total_norm_list, lst),
            fuzzy_cutoff, token_jaccard_cutoff)

\* the candidates with the highest token score, and with the highest ratio
TopToken ==
    {t \in TokenCandidates : \A u \in TokenCandidates : ~FracGT(ScoreOf(u), ScoreOf(t))}
TopFuzzy ==
    {t \in FuzzyCandidates : \A u \in FuzzyCandidates : ~FracGT(RatioOf(u), RatioOf(t))}

\* a token-stage allocation goes to the lowest row among the candidates with
\* the highest token score, and a fuzzy-stage allocation to the lowest row
\* among the candidates with the highest ratio
LowestAmongBest ==
    /\ (AtNamedRecord /\ Allocates("token-match")) =>
          /\ NewRow \in TopToken
          /\ \A t \in TopToken : NewRow <= t
    /\ (AtNamedRecord /\ Allocates("fuzzy")) =>
          /\ NewRow \in TopFuzzy
          /\ \A t \in TopFuzzy : NewRow <= t

\* the row a token-stage or fuzzy-stage allocation takes is the row the
\* cascade takes whichever way the pool is traversed
SameUnderEveryOrder ==
    (AtNamedRecord /\ (Allocates("token-match") \/ Allocates("fuzzy"))) =>
        \A lst \in Orders(unmatched_total_indices) : OutcomeOver(lst)[1] = NewRow

\* whichever way the pool is traversed, the scan of the allocating stage
\* keeps the candidate with the highest score that the traversal meets first
FirstSeenWins ==
    /\ (AtNamedRecord /\ Allocates("token-match")) =>
          \A lst \in Orders(unmatched_total_indices) :
             \A c \in {TokenChoiceOver(lst)} :
                /\ c \in TopToken
                /\ \A t \in TopToken : PositionIn(lst, c) <= PositionIn(lst, t)
    /\ (AtNamedRecord /\ Allocates("fuzzy")) =>
          \A lst \in Orders(unmatched_total_indices) :
             \A c \in {FuzzyChoiceOver(lst)} :
                /\ c \in TopFuzzy
                /\ \A t \in TopFuzzy : PositionIn(lst, c) <= PositionIn(lst, t)

\* C4 as stated: in the token stage and in the fuzzy stage the lowest row
\* among the candidates with the highest score is allocated, and the row
\* allocated is the same whichever order the pool is traversed in.
TieBreakAnyOrder == [][LowestAmongBest /\ SameUnderEveryOrder]_vars

\* C4 amended: in the token stage and in the fuzzy stage the scan keeps, of
\* the candidates with the highest score, the one its traversal of the pool
\* meets first, whichever the order; the program's traversal is ascending, so
\* the row it allocates is the lowest of them.
LowestIndexWins == [][LowestAmongBest /\ FirstSeenWins]_vars

\* the pool as it stood when pair i of matched_pairs was made
PoolAt(i) ==
    unmatched_total_indices \cup {matched_pairs[k][2] : k \in i..Len(matched_pairs)}

\* token score and ratio of the present row of pair i against roster row t
PairScoreOf(i, t) ==
    TokenScore(TokenSet(present_norm[matched_pairs[i][1] + 1]),
               TokenSet(NormOf(total_norm_list, t)))
PairRatioOf(i, t) ==
    ratio(present_norm[matched_pairs[i][1] + 1], NormOf(total_norm_list, t))

\* pair i was made by the token stage while a higher row of the pool had the
\* same token score; pair i was made by the fuzzy stage while a higher row of
\* the pool had the same ratio
TokenTieAt(i) ==
    /\ matched_pairs[i][3][1] = "token-match"
    /\ \E t \in PoolAt(i) :
          t > matched_pairs[i][2] /\ FracEQ(PairScoreOf(i, t), PairScoreOf(i, matched_pairs[i][2]))
FuzzyTieAt(i) ==
    /\ matched_pairs[i][3][1] = "fuzzy"
    /\ \E t \in PoolAt(i) :
          t > matched_pairs[i][2] /\ FracEQ(PairRatioOf(i, t), PairRatioOf(i, matched_pairs[i][2]))

\* C4 witness: a run in which the token stage allocated one present row and
\* the fuzzy stage another, each while a higher row of the pool had the same
\* score
TieWitness ==
    /\ pc = "loop"
    /\ \E i \in 1..Len(matched_pairs) : TokenTieAt(i)
    /\ \E j \in 1..Len(matched_pairs) : FuzzyTieAt(j)

\* a token allocation made while a higher row of the pool had the same token
\* score
TokenTieReached ==
    /\ JustAllocated("token-match")
    /\ \E t \in unmatched_total_indices :
          t > LastPair[2] /\ FracEQ(LastScoreOf(t), LastScoreOf(LastPair[2]))

\* a fuzzy allocation made while a higher row of the pool had the same ratio
FuzzyTieReached ==
    /\ JustAllocated("fuzzy")
    /\ \E t \in unmatched_total_indices :
          t > LastPair[2] /\ FracEQ(LastRatioOf(t), LastRatioOf(LastPair[2]))

\* the pairs of a run made by method
CountOf(pairs, method) == Cardinality({i \in 1..Len(pairs) : pairs[i][3][1] = method})

\* C5 as stated: the finished run has no more token allocations than the run
\* on the same inputs under any lower token_jaccard_cutoff, and no more fuzzy
\* allocations than the run under any lower fuzzy_cutoff.
MonotonicCutoff ==
    pc = "done" =>
        \A lo \in CutoffValues :
           /\ lo <= token_jaccard_cutoff =>
                 CountOf(matched_pairs, "token-match")
                    <= CountOf(FinalState(total, present, fuzzy_cutoff, lo).pairs,
                               "token-match")
           /\ lo <= fuzzy_cutoff =>
                 CountOf(matched_pairs, "fuzzy")
                    <= CountOf(FinalState(total, present, lo, token_jaccard_cutoff).pairs,
                               "fuzzy")

\* the cascade's answer for the current present row under other cutoffs
OutcomeUnder(fc, tc) ==
    MatchRecord(p_norm, total_norm_list, unmatched_total_indices, fc, tc)

\* C5 amended: for one present row against the pool as it stands, a token
\* allocation made under the run's token_jaccard_cutoff is made, to the same
\* row, under every lower one, and a fuzzy allocation made under the run's
\* fuzzy_cutoff is made, to the same row, under every lower one.
MonotonicPerRecord ==
    AtNamedRecord =>
        \A o \in {Outcome} : \A lo \in CutoffValues :
           /\ (lo <= token_jaccard_cutoff /\ o[2][1] = "token-match") =>
                 OutcomeUnder(fuzzy_cutoff, lo) = o
           /\ (lo <= fuzzy_cutoff /\ o[2][1] = "fuzzy") =>
                 OutcomeUnder(lo, token_jaccard_cutoff) = o

\* C5 witness: a present row the token stage allocates under the run's cutoff
\* and under a lower one, in a pool where another present name was turned
\* down by the token stage only because of the cutoff
MonotonicWitness ==
    /\ AtNamedRecord
    /\ Outcome[2][1] = "token-match"
    /\ \E lo \in CutoffValues : lo < token_jaccard_cutoff
    /\ not_found_present # <<>>
    /\ \E k \in 1..p_idx :
          /\ present_norm[k] # <<>>
          /\ MatchRecord(present_norm[k], total_norm_list, unmatched_total_indices,
                         fuzzy_cutoff, 0)[2][1] = "token-match"
          /\ MatchRecord(present_norm[k], total_norm_list, unmatched_total_indices,
                         fuzzy_cutoff, token_jaccard_cutoff)[2][1] = "none"

\* C6 as stated: normalizing the output of normalize_name gives it back.
NormalizeIdempotent == Len(norm_out) = 2 => norm_out[2] = norm_out[1]

\* both thresholds are in [0, 1]
ValidConfiguration ==
    /\ 0 <= fuzzy_cutoff /\ fuzzy_cutoff <= 100
    /\ 0 <= token_jaccard_cutoff /\ token_jaccard_cutoff <= 100

\* C7 as stated: with a threshold outside [0, 1] no present row is processed,
\* no allocation is made and no report is returned.
InvalidConfigurationRejected ==
    ~ValidConfiguration =>
        /\ p_idx = 0
        /\ matched_pairs = <<>>
        /\ not_found_present = <<>>
        /\ pc # "done"

\* C8: if a candidate row has a positive token score that reaches
\* token_jaccard_cutoff, the present row is allocated, and not by the fuzzy or
\* the close-match stage; if no row has, and a pool row has a ratio that
\* reaches fuzzy_cutoff, the present row is not allocated by close-match.
StageOrder ==
    [][ AtNamedRecord =>
          LET tokenOk == \E t \in TokenCandidates :
                            /\ ScoreOf(t)[1] > 0
                            /\ FracGE100(ScoreOf(t), token_jaccard_cutoff)
              fuzzyOk == \E t \in unmatched_total_indices :
                            FracGE100(RatioOf(t), fuzzy_cutoff)
          IN  /\ tokenOk => (Allocates("exact") \/ Allocates("token-match"))
              /\ (~tokenOk /\ fuzzyOk) => ~Allocates("close-match") ]_vars

\* the stage order with a ratio that is positive: if no row has a positive
\* token score that reaches token_jaccard_cutoff and a pool row has a positive
\* ratio that reaches fuzzy_cutoff, the present row is allocated by the fuzzy
\* stage.  (StageOrder fails where the ratio that reaches fuzzy_cutoff is 0:
\* autojunk gives LongPart the ratio 0 against LongWord, the fuzzy stage finds
\* no row, and close-match, whose matcher has the two names the other way
\* round, allocates.)
StageOrderPositive ==
    [][ AtNamedRecord =>
          LET tokenOk == \E t \in TokenCandidates :
                            /\ ScoreOf(t)[1] > 0
                            /\ FracGE100(ScoreOf(t), token_jaccard_cutoff)
              fuzzyOk == \E t \in unmatched_total_indices :
                            /\ RatioOf(t)[1] > 0
                            /\ FracGE100(RatioOf(t), fuzzy_cutoff)
          IN  (~tokenOk /\ fuzzyOk) =>
                 (Allocates("exact") \/ Allocates("fuzzy")) ]_vars

\* a token allocation made while another row of the pool had a higher ratio,
\* one that reaches fuzzy_cutoff
StageOrderWitness ==
    /\ JustAllocated("token-match")
    /\ \E t \in unmatched_total_indices :
          /\ FracGT(LastRatioOf(t), LastRatioOf(LastPair[2]))
          /\ FracGE100(LastRatioOf(t), fuzzy_cutoff)

\* a fuzzy allocation made while its ratio also reaches the close-match cutoff
FuzzyBeforeCloseReached ==
    /\ JustAllocated("fuzzy")
    /\ FracGE100(ratio(NormOf(total_norm_list, LastPair[2]), LastNorm), CloseCutoff)

\* C9: processing a present row whose normalized name is empty appends its
\* raw name to not_found_present and leaves the pool and matched_pairs as
\* they are.
EmptyRecordFrame ==
    [][ (AtRecord /\ p_norm = <<>>) =>
           /\ not_found_present' = Append(not_found_present, p_orig)
           /\ unmatched_total_indices' = unmatched_total_indices
           /\ matched_pairs' = matched_pairs
           /\ p_idx' = p_idx + 1 ]_vars

\* C9 witness: an empty present name was processed while the pool held a
\* roster row whose normalized name is empty
EmptyRecordWitness ==
    /\ pc = "loop" /\ p_idx > 0
    /\ present_norm[p_idx] = <<>>
    /\ not_found_present # <<>>
    /\ \E t \in unmatched_total_indices : NormOf(total_norm_list, t) = <<>>

\* C10: a token allocation pairs the present row with a roster row that
\* shares a token with it, and a fuzzy allocation with a row whose ratio is
\* above 0, whatever the cutoffs.
PositiveScoreOnly ==
    [][ /\ (AtNamedRecord /\ Allocates("token-match")) =>
             TokenSet(p_norm) \cap TokenSet(NormOf(total_norm_list, NewRow)) # {}
        /\ (AtNamedRecord /\ Allocates("fuzzy")) => RatioOf(NewRow)[1] > 0 ]_vars

\* C10 witness: under cutoffs of 0 a present name was left unmatched although
\* the pool held rows, all of them with token score 0 and ratio 0
ZeroScoreWitness ==
    /\ pc = "loop" /\ p_idx > 0
    /\ token_jaccard_cutoff <= 0 /\ fuzzy_cutoff <= 0
    /\ LastNorm # <<>>
    /\ (p_idx - 1) \notin MatchedPresent
    /\ \E t \in unmatched_total_indices : NormOf(total_norm_list, t) # <<>>
    /\ \A t \in unmatched_total_indices : LastScoreOf(t)[1] = 0 /\ LastRatioOf(t)[1] = 0

\* a present name left without a pair at zero cutoffs although the pool held a
\* name whose popular characters it shares: autojunk made their ratio 0
AutojunkReached ==
    /\ pc = "loop"
    /\ p_idx > 0
    /\ fuzzy_cutoff = 0
    /\ LastNorm # <<>>
    /\ (p_idx - 1) \notin MatchedPresent
    /\ \E t \in unmatched_total_indices :
          /\ LastRatioOf(t)[1] = 0
          /\ \E k \in 1..Len(LastNorm) :
                LastNorm[k] \in Popular(NormOf(total_norm_list, t))

\* the actions and pairwise_match as a function agree on the report
ReportAgrees ==
    pc = "done" => report = pairwise_match(total, present, fuzzy_cutoff, token_jaccard_cutoff)

====
